---- MODULE Spec2Model ----
(***************************************************************************)
(* A model of the imager repository: the command-line batch runner of      *)
(* imager.py, the batch runner of image_processor.py, the script           *)
(* bgremove.py and the form handler of gradio_imager.py (which drives the  *)
(* in-memory pipeline of image_processor.py).                              *)
(*                                                                         *)
(* Strings are sequences of one-character strings, paths are records       *)
(* [dir, name], the file system is a function from paths to files, and an  *)
(* image is a record of its source, the stages applied to it and its size. *)
(***************************************************************************)
EXTENDS Integers, Sequences, FiniteSets, TLC

\* ------------------------------------------------------------------ bounds
MaxFiles == 2      \* files in the intake directory
MaxPad == 2        \* padding ranges over 0..MaxPad
MaxDim == 2        \* source images are w x h with w, h in 1..MaxDim

\* ------------------------------------------------------------------ values
Digit == {"0", "1", "2", "3", "4", "5", "6", "7", "8", "9"}

DigitChar(d) ==
    CASE d = 0 -> "0" [] d = 1 -> "1" [] d = 2 -> "2" [] d = 3 -> "3" [] d = 4 -> "4"
      [] d = 5 -> "5" [] d = 6 -> "6" [] d = 7 -> "7" [] d = 8 -> "8" [] d = 9 -> "9"

DigitVal(c) ==
    CASE c = "0" -> 0 [] c = "1" -> 1 [] c = "2" -> 2 [] c = "3" -> 3 [] c = "4" -> 4
      [] c = "5" -> 5 [] c = "6" -> 6 [] c = "7" -> 7 [] c = "8" -> 8 [] c = "9" -> 9

\* str(n) of a Python int, as the f-strings of generate_output_filename format it
RECURSIVE NatStr(_)
NatStr(n) == IF n < 10 THEN <<DigitChar(n)>> ELSE NatStr(n \div 10) \o <<DigitChar(n % 10)>>

IntStr(n) == IF n < 0 THEN <<"-">> \o NatStr(-n) ELSE NatStr(n)

\* int(a / b) of Python for b > 0: the quotient truncated toward zero
Trunc(a, b) == IF a >= 0 THEN a \div b ELSE -((-a) \div b)

Abs(a) == IF a < 0 THEN -a ELSE a

\* ------------------------------------------------------------------ os.path
\* os.path.join(dir, name)
Join(dir, name) == [dir |-> dir, name |-> name]

\* os.path.basename(path)
Basename(path) == path.name

\* the index of the last "." of s, 0 when there is none
RECURSIVE LastDot(_)
LastDot(s) ==
    IF s = <<>> THEN 0
    ELSE IF s[Len(s)] = "." THEN Len(s) ELSE LastDot(SubSeq(s, 1, Len(s) - 1))

\* os.path.splitext(name)[0]: the name up to its last dot; a dot that only
\* leading dots precede does not start an extension
SplitextBase(s) ==
    LET d == LastDot(s) IN
    IF d > 0 /\ \E i \in 1..(d - 1) : s[i] # "." THEN SubSeq(s, 1, d - 1) ELSE s

\* os.path.splitext(name)[1]
SplitextExt(s) ==
    LET d == LastDot(s) IN
    IF d > 0 /\ \E i \in 1..(d - 1) : s[i] # "." THEN SubSeq(s, d, Len(s)) ELSE <<>>

DotPng == <<".", "p", "n", "g">>

\* temp_path = output_path + ".tmp.png"
TempPath(output_path) ==
    Join(output_path.dir, output_path.name \o <<".", "t", "m", "p">> \o DotPng)

\* ------------------------------------------------------------------ names
\* generate_output_filename of imager.py with the "_c" token put before "_b"
GenerateOutputFilenameCropFirst(input_path, remove_bg, crop, resize) ==
    LET base == SplitextBase(Basename(input_path))
        s1 == IF crop THEN <<"_", "c">> ELSE <<>>
        s2 == IF remove_bg THEN s1 \o <<"_", "b">> ELSE s1
        s3 == IF resize # <<>> /\ crop
              THEN s2 \o IntStr(resize[1]) \o <<"x">> \o IntStr(resize[2])
              ELSE s2
    IN  base \o s3 \o DotPng

\* generate_output_filename of imager.py
GenerateOutputFilename(input_path, remove_bg, crop, resize) ==
    LET base == SplitextBase(Basename(input_path))
        s1 == IF remove_bg THEN <<"_", "b">> ELSE <<>>
        s2 == IF crop THEN s1 \o <<"_", "c">> ELSE s1
        s3 == IF resize # <<>> /\ crop
              THEN s2 \o IntStr(resize[1]) \o <<"x">> \o IntStr(resize[2])
              ELSE s2
        suffix == IF ~(remove_bg \/ crop \/ resize # <<>>) THEN <<>> ELSE s3
    IN  base \o suffix \o DotPng

\* generate_output_filename of image_processor.py keeping the extension of the
\* input when no suffix token is appended
IPGenerateOutputFilenameKeepsExt(input_path, remove_bg, crop, resize, background) ==
    LET base == SplitextBase(Basename(input_path))
        s1 == IF remove_bg THEN <<"_", "b">> ELSE <<>>
        s2 == IF crop THEN s1 \o <<"_", "c">> ELSE s1
        s3 == IF resize # <<>>
              THEN s2 \o <<"_">> \o IntStr(resize[1]) \o <<"x">> \o IntStr(resize[2])
              ELSE s2
        suffix == IF background # <<>>
                  THEN s3 \o <<"_", "b", "g">> ELSE s3
    IN  IF suffix = <<>> THEN base \o SplitextExt(Basename(input_path))
        ELSE base \o suffix \o DotPng

\* generate_output_filename of image_processor.py
IPGenerateOutputFilename(input_path, remove_bg, crop, resize, background) ==
    LET base == SplitextBase(Basename(input_path))
        s1 == IF remove_bg THEN <<"_", "b">> ELSE <<>>
        s2 == IF crop THEN s1 \o <<"_", "c">> ELSE s1
        s3 == IF resize # <<>>
              THEN s2 \o <<"_">> \o IntStr(resize[1]) \o <<"x">> \o IntStr(resize[2])
              ELSE s2
        suffix == IF background # <<>>
                  THEN s3 \o <<"_", "b", "g">> ELSE s3
    IN  base \o suffix \o DotPng

\* ------------------------------------------------------------------ resize strings
\* s.split('x'): the parts of s between its "x" characters
RECURSIVE SplitX(_)
SplitX(s) ==
    IF \A i \in 1..Len(s) : s[i] # "x" THEN <<s>>
    ELSE LET k == CHOOSE i \in 1..Len(s) : s[i] = "x" /\ \A j \in 1..(i - 1) : s[j] # "x"
         IN  <<SubSeq(s, 1, k - 1)>> \o SplitX(SubSeq(s, k + 1, Len(s)))

\* the digits of an int(...) argument, its sign dropped
Unsigned(p) == IF p # <<>> /\ p[1] \in {"-", "+"} THEN Tail(p) ELSE p

\* int(p) raises no ValueError: an optional sign, then one or more digits
IntOk(p) == Unsigned(p) # <<>> /\ \A i \in 1..Len(Unsigned(p)) : Unsigned(p)[i] \in Digit

RECURSIVE NatVal(_)
NatVal(p) == IF p = <<>> THEN 0 ELSE 10 * NatVal(SubSeq(p, 1, Len(p) - 1)) + DigitVal(p[Len(p)])

\* int(p)
IntVal(p) == IF p[1] = "-" THEN -NatVal(Unsigned(p)) ELSE NatVal(Unsigned(p))

\* the unpacking that takes the first two parts and ignores further ones
ResizeParsesFirstTwo(s) ==
    LET parts == SplitX(s) IN Len(parts) >= 2 /\ IntOk(parts[1]) /\ IntOk(parts[2])

\* map(int, s.split('x')) unpacks into width, height without a ValueError:
\* exactly two parts, each an integer literal
ResizeParses(s) ==
    LET parts == SplitX(s) IN Len(parts) = 2 /\ IntOk(parts[1]) /\ IntOk(parts[2])

\* width, height = map(int, s.split('x')); resize_dimensions = (width, height)
ParseResize(s) == LET parts == SplitX(s) IN <<IntVal(parts[1]), IntVal(parts[2])>>

\* ------------------------------------------------------------------ images
\* An image: the file it came from, the stages applied to it, its size, the
\* size of the bounding box of its content (<<>>: no content), whether its
\* bytes decode, the colour composited under it (<<>>: none), and the fitted
\* size and paste offset of the last resize-and-pad.
NoImage ==
    [src |-> <<>>, stages |-> <<>>, w |-> 0, h |-> 0, box |-> <<>>, ok |-> FALSE,
     bg |-> <<>>, fit |-> <<>>, at |-> <<>>]

SourceImage(name, size, box, ok) ==
    [src |-> name, stages |-> <<>>, w |-> size[1], h |-> size[2], box |-> box, ok |-> ok,
     bg |-> <<>>, fit |-> <<>>, at |-> <<>>]

\* rembg.remove: the same picture with its background made transparent
RemBg(img) == [img EXCEPT !.stages = @ \o <<"b">>, !.ok = TRUE]

\* image.crop(image.getbbox()), or the image itself when getbbox() is None
Autocrop(img) ==
    IF img.box # <<>>
    THEN [img EXCEPT !.stages = @ \o <<"c">>, !.w = img.box[1], !.h = img.box[2]]
    ELSE [img EXCEPT !.stages = @ \o <<"c">>]

\* ------------------------------------------------------------------ geometry
\* a / b > c / d of Python floats, for b # 0 and d > 0
RatioGreater(a, b, c, d) == IF b > 0 THEN a * d > c * b ELSE a * d < c * b

\* Image.new raises ValueError for a negative width or height
SizeNegative(size) == size[1] < 0 \/ size[2] < 0

\* Image.resize raises ValueError ("height and width must be > 0") for a
\* width or height below 1
SizeRejected(size) == size[1] < 1 \/ size[2] < 1

\* a / b < c / d of Python floats, for b # 0 and d > 0
RatioLess(a, b, c, d) == IF b > 0 THEN a * d < c * b ELSE a * d > c * b

Max1(n) == IF n < 1 THEN 1 ELSE n

\* round_aspect(y * aspect, key = |aspect - n / y|) of Image.thumbnail: of the
\* floor and the ceiling the one nearer in aspect, the floor on a tie, at least 1
ThumbnailWidth(w, h, y) ==
    LET f == (y * w) \div h
        c == IF (y * w) % h = 0 THEN f ELSE f + 1
    IN  Max1(IF Abs(w * y - c * h) < Abs(w * y - f * h) THEN c ELSE f)

\* round_aspect(x / aspect, key = 0 if n == 0 else |aspect - x / n|)
ThumbnailHeight(w, h, x) ==
    IF x <= 0 THEN 1
    ELSE LET f == (x * h) \div w
             c == IF (x * h) % w = 0 THEN f ELSE f + 1
         IN  Max1(IF f # 0 /\ Abs(w * c - x * h) * f < Abs(w * f - x * h) * c THEN c ELSE f)

\* the size Image.thumbnail((x, y)) resizes a w x h image to (y # 0): its own
\* size when it already fits, else the aspect-preserving size within (x, y)
ThumbnailSize(w, h, x, y) ==
    IF x >= w /\ y >= h THEN <<w, h>>
    ELSE IF ~RatioLess(x, y, w, h) THEN <<ThumbnailWidth(w, h, y), y>>
         ELSE <<x, ThumbnailHeight(w, h, x)>>

\* ------------------------------------------------------------------ floats
\* Python's float is the IEEE 754 double: a significand of Precision bits and
\* a power of two. The significand outgrows the integers of the model checker,
\* so a natural number of any size is kept as the sequence of its digits to
\* Base, the least significant first and the most significant not zero.
Base == 4096
Precision == 53

\* the element of a set of one element: {F(v) : v \in {e}} applies F to the
\* value of e, computed once
The(S) == CHOOSE v \in S : TRUE

RECURSIVE BitLen(_)
BitLen(n) == IF n = 0 THEN 0 ELSE 1 + BitLen(n \div 2)

RECURSIVE Pow2(_)
Pow2(n) == IF n = 0 THEN 1 ELSE 2 * Pow2(n - 1)

DigitBits == BitLen(Base - 1)

RECURSIVE BigFromInt(_)
BigFromInt(n) == IF n = 0 THEN <<>> ELSE <<n % Base>> \o BigFromInt(n \div Base)

RECURSIVE BigToInt(_)
BigToInt(a) == IF a = <<>> THEN 0 ELSE a[1] + Base * BigToInt(Tail(a))

\* a without its leading zero digits
BigNorm(a) ==
    LET used == {i \in 1..Len(a) : a[i] # 0}
    IN  IF used = {} THEN <<>>
        ELSE SubSeq(a, 1, CHOOSE i \in used : \A j \in used : j <= i)

BigBitLen(a) == IF a = <<>> THEN 0 ELSE DigitBits * (Len(a) - 1) + BitLen(a[Len(a)])

BigOdd(a) == a # <<>> /\ a[1] % 2 = 1

BigLess(a, b) ==
    \/ Len(a) < Len(b)
    \/ /\ Len(a) = Len(b)
       /\ \E i \in 1..Len(a) : a[i] < b[i] /\ \A j \in (i + 1)..Len(a) : a[j] = b[j]

\* the digits of a + b + c from digit i on
RECURSIVE BigAddFrom(_, _, _, _)
BigAddFrom(a, b, i, c) ==
    IF i > Len(a) /\ i > Len(b) THEN BigFromInt(c)
    ELSE LET sum == (IF i <= Len(a) THEN a[i] ELSE 0) + (IF i <= Len(b) THEN b[i] ELSE 0) + c
         IN  <<sum % Base>> \o BigAddFrom(a, b, i + 1, sum \div Base)

BigAdd(a, b) == The({BigAddFrom(u, v, 1, 0) : u \in {a}, v \in {b}})

\* the digits of a - b - c from digit i on, for a >= b
RECURSIVE BigSubFrom(_, _, _, _)
BigSubFrom(a, b, i, c) ==
    IF i > Len(a) THEN <<>>
    ELSE LET diff == a[i] - (IF i <= Len(b) THEN b[i] ELSE 0) - c
         IN  <<diff % Base>> \o BigSubFrom(a, b, i + 1, IF diff < 0 THEN 1 ELSE 0)

BigSub(a, b) == The({BigNorm(d) : d \in {BigSubFrom(u, v, 1, 0) : u \in {a}, v \in {b}}})

\* the digits of a * n + c from digit i on, for a digit n
RECURSIVE BigTimesFrom(_, _, _, _)
BigTimesFrom(a, n, i, c) ==
    IF i > Len(a) THEN BigFromInt(c)
    ELSE LET prod == a[i] * n + c
         IN  <<prod % Base>> \o BigTimesFrom(a, n, i + 1, prod \div Base)

BigTimes(a, n) == The({BigNorm(p) : p \in {BigTimesFrom(u, n, 1, 0) : u \in {a}}})

RECURSIVE BigMul(_, _)
BigMul(a, b) ==
    IF b = <<>> THEN <<>>
    ELSE The({BigAdd(BigTimes(u, v[1]), IF rest = <<>> THEN <<>> ELSE <<0>> \o rest) :
                 u \in {a}, v \in {b}, rest \in {BigMul(a, Tail(b))}})

\* a * 2^n
BigShiftLeft(a, n) ==
    IF n <= 0 \/ a = <<>> THEN a
    ELSE [i \in 1..(n \div DigitBits) |-> 0] \o BigTimes(a, Pow2(n % DigitBits))

\* a \div 2^n
BigShiftRight(a, n) ==
    LET drop == n \div DigitBits
        low == Pow2(n % DigitBits)
    IN  IF n <= 0 THEN a
        ELSE IF drop >= Len(a) THEN <<>>
        ELSE BigNorm([i \in 1..(Len(a) - drop) |->
                        a[i + drop] \div low
                          + (IF i + drop < Len(a)
                             THEN (a[i + drop + 1] % low) * (Base \div low) ELSE 0)])

\* a float that is not negative is [m, e], the number m * 2^e; float(n) is exact
FloatFromInt(n) == [m |-> BigFromInt(n), e |-> 0]

\* the float nearest to the number m * 2^e, or a little more when sticky: the
\* bits beyond Precision go, and the first of them (guard) with the rest
\* decides the rounding, to the even one of two nearest floats
FloatRound(m, e, sticky) ==
    LET drop == BigBitLen(m) - Precision
        kept == BigShiftRight(m, drop)
        guard == BigOdd(BigShiftRight(m, drop - 1))
        rest == sticky \/ BigShiftLeft(BigShiftRight(m, drop - 1), drop - 1) # m
    IN  IF drop <= 0 THEN [m |-> m, e |-> e]
        ELSE IF guard /\ (rest \/ BigOdd(kept)) THEN [m |-> BigAdd(kept, <<1>>), e |-> e + drop]
        ELSE [m |-> kept, e |-> e + drop]

\* x * y of two floats: the exact product, rounded
FloatMul(x, y) == The({FloatRound(p, x.e + y.e, FALSE) : p \in {BigMul(x.m, y.m)}})

\* one more bit of the quotient d.q and the remainder d.r of a division by d.b
DivideStep(d) ==
    The({IF BigLess(r, d.b)
         THEN [d EXCEPT !.q = BigShiftLeft(@, 1), !.r = r]
         ELSE [d EXCEPT !.q = BigAdd(BigShiftLeft(@, 1), <<1>>), !.r = BigSub(r, d.b)] :
            r \in {BigShiftLeft(d.r, 1)}})

\* k more bits of the quotient
RECURSIVE DivideBits(_, _)
DivideBits(d, k) ==
    IF k = 0 THEN d ELSE The({DivideBits(DivideStep(v), k - 1) : v \in {d}})

\* n more digits of the quotient
RECURSIVE LongDivide(_, _)
LongDivide(d, n) ==
    IF n = 0 THEN d ELSE The({LongDivide(v, n - 1) : v \in {DivideBits(d, DigitBits)}})

\* x / y of two floats, y # 0: the quotient to Precision + 2 bits or more with
\* the remainder as its sticky bit, rounded
FloatDivide(x, y) ==
    LET shift == BigBitLen(x.m) - BigBitLen(y.m) + 1
        digits == Precision \div DigitBits + 1
    IN  The({FloatRound(d.q, x.e - y.e + shift - digits * DigitBits, d.r # <<>>) :
                d \in {LongDivide([q |-> <<>>, r |-> BigShiftLeft(x.m, -shift),
                                   b |-> BigShiftLeft(y.m, shift)], digits)}})

FloatDiv(x, y) == IF x.m = <<>> THEN x ELSE The({FloatDivide(u, v) : u \in {x}, v \in {y}})

\* int(x) of a float that is not negative
IntOfFloat(x) ==
    IF x.e >= 0 THEN BigToInt(BigShiftLeft(x.m, x.e))
    ELSE BigToInt(BigShiftRight(x.m, -x.e))

\* int(n * (w / h)) and int(n / (w / h)) for n >= 0 and w, h >= 1
NatTimesRatio(n, w, h) ==
    IntOfFloat(FloatMul(FloatFromInt(n), FloatDiv(FloatFromInt(w), FloatFromInt(h))))

NatOverRatio(n, w, h) ==
    IntOfFloat(FloatDiv(FloatFromInt(n), FloatDiv(FloatFromInt(w), FloatFromInt(h))))

\* the two for the sides and the contents that the pictures and the Resize
\* texts of the model give, tabulated (@@ makes the function an explicit one,
\* computed once)
Sides == (1..MaxDim) \cup {7, 9}
RatioTable ==
    [t \in (0..9) \X Sides \X Sides |->
        [times |-> NatTimesRatio(t[1], t[2], t[3]), over |-> NatOverRatio(t[1], t[2], t[3])]]
      @@ <<>>

\* int(n * (w / h)) and int(n / (w / h)) for any n: a negative n gives the
\* negative of what -n gives
IntTimesRatio(n, w, h) ==
    LET product == IF <<Abs(n), w, h>> \in DOMAIN RatioTable
                   THEN RatioTable[<<Abs(n), w, h>>].times
                   ELSE NatTimesRatio(Abs(n), w, h)
    IN  IF n < 0 THEN -product ELSE product

IntOverRatio(n, w, h) ==
    LET quotient == IF <<Abs(n), w, h>> \in DOMAIN RatioTable
                    THEN RatioTable[<<Abs(n), w, h>>].over
                    ELSE NatOverRatio(Abs(n), w, h)
    IN  IF n < 0 THEN -quotient ELSE quotient

\* new_width, new_height of resize_and_pad_image of image_processor.py
\* (content_height # 0): height-bound when target_ratio > img_ratio
FitSize(w, h, content_width, content_height) ==
    IF RatioGreater(content_width, content_height, w, h)
    THEN <<IntTimesRatio(content_height, w, h), content_height>>
    ELSE <<content_width, IntOverRatio(content_width, w, h)>>

\* paste_position: the offset that centres a new_width x new_height image
PastePosition(target_width, target_height, new_width, new_height) ==
    <<(target_width - new_width) \div 2, (target_height - new_height) \div 2>>

\* ------------------------------------------------------------------ colours
HexDigit == Digit \cup {"a", "b", "c", "d", "e", "f", "A", "B", "C", "D", "E", "F"}

Letter ==
    {"a", "b", "c", "d", "e", "f", "g", "h", "i", "k", "m", "n", "o", "r", "s", "t", "w",
     "A", "D", "F"}

White == <<"w", "h", "i", "t", "e">>
Whitesmoke == <<"w", "h", "i", "t", "e", "s", "m", "o", "k", "e">>
Tan == <<"t", "a", "n">>
DarkPreset == <<"#", "2", "A", "3", "7", "3", "D">>
DefaultColor == <<"#", "F", "F", "F", "F", "F", "F">>

\* the colour names of PIL.ImageColor.colormap that occur in the model
ColorNames == {White, Whitesmoke, Tan}

\* Image.new("RGBA", size, color) raises no ValueError: PIL.ImageColor.getrgb
\* knows the name, or the string is "#" and 3, 4, 6 or 8 hex digits
\* (functional notations such as rgb(...) are not among the model's inputs)
ValidColor(s) ==
    \/ s \in ColorNames
    \/ /\ Len(s) \in {4, 5, 7, 9}
       /\ s[1] = "#"
       /\ \A i \in 2..Len(s) : s[i] \in HexDigit

\* background.startswith("#")
StartsWithHash(s) == s # <<>> /\ s[1] = "#"

\* background.isalpha()
IsAlpha(s) == s # <<>> /\ \A i \in 1..Len(s) : s[i] \in Letter

\* the colour of the layer add_background composites the image over
BackgroundColor(background, default_color) ==
    IF StartsWithHash(background) \/ IsAlpha(background)
    THEN IF ValidColor(background) THEN background ELSE default_color
    ELSE default_color

\* add_background prints its "Invalid color" message
BackgroundWarns(background) ==
    (StartsWithHash(background) \/ IsAlpha(background)) /\ ~ValidColor(background)

\* add_background(image, background) for a string background
AddBackground(img, background) ==
    [img EXCEPT !.stages = @ \o <<"bg">>, !.bg = BackgroundColor(background, DefaultColor)]

\* ------------------------------------------------------------------ inputs
AJpg == <<"a", ".", "j", "p", "g">>
APng == <<"a", ".", "p", "n", "g">>
BFile == <<"b">>
Upload == <<"u", ".", "p", "n", "g">>
Supermario == <<"s", ".", "p", "n", "g">>

\* the names of the files of the intake directory, in the order they are added
FilePool == <<AJpg, APng, BFile>>

Min(a, b) == IF a < b THEN a ELSE b

\* the intake directories of the model: the first n names of the pool
Intakes == {{FilePool[i] : i \in 1..n} : n \in 0..Min(MaxFiles, Len(FilePool))}

\* the values of the --resize option and of the Resize textbox; <<>> is unset
ResizeStrings ==
    {<<>>,
     <<"2", "x", "2">>, <<"6", "x", "2">>, <<"2", "x", "6">>, <<"6", "x", "6">>,
     <<"2", "-", "2">>, <<"2", "x">>, <<"2", "x", "2", "x", "2">>, <<"x">>,
     <<"-", "2", "x", "2">>}

\* the values of the Background textbox; <<>> is unset
Backgrounds ==
    {<<>>, Tan, <<"n", "a", "t">>, <<"#", "f", "f", "f">>, <<"#", "g", "g">>,
     <<"n", "a", "1">>}

Sizes == (1..MaxDim) \X (1..MaxDim)

\* the sizes of an uploaded picture and the values of the Resize textbox: those
\* above and a 9 x 7 picture with the box of its own size
UploadSizes == Sizes \cup {<<9, 7>>}
ResizeTexts == ResizeStrings \cup {<<"9", "x", "7">>}

InputDir == "input"
ProcessedDir == "input/processed"
OutputDir == "output"

\* the permutations of a finite set, as sequences
Orders(S) ==
    {q \in [1..Cardinality(S) -> S] : \A i, j \in 1..Cardinality(S) : i # j => q[i] # q[j]}

\* ------------------------------------------------------------------ state
VARIABLES
    prog,       \* the program run: "imager", "image_processor", "bgremove", "gradio"
    args,       \* the options of the invocation
    bad,        \* the inputs the background remover fails on; in a batch, the
                \* files whose bytes do not decode
    fs,         \* the file system: path -> [img, state], state "partial" while
                \* a file is open for writing and its data is not yet written
    dirs,       \* the directories the program has created
    inputs,     \* the listing of the intake directory
    idx,        \* the position of the loop in the listing
    pc,         \* the statement the program is at
    resize,     \* resize_dimensions: <<width, height>>, or <<>> for None
    cur,        \* input_path and output_path of the iteration
    image,      \* image_data
    pending,    \* the write in progress: <<[path, img, next]>>, or <<>>
    exc,        \* the exception that ended the program: <<type, function>>, or <<>>
    out         \* what the program printed or returned to the user

vars == <<prog, args, bad, fs, dirs, inputs, idx, pc, resize, cur, image, pending, exc, out>>

NoPath == Join("", <<>>)

File(img) == [img |-> img, state |-> "full"]
OpenedFile == [img |-> NoImage, state |-> "partial"]

Exists(path) == path \in DOMAIN fs

\* the file system with the file at path replaced or created
Put(f, path, file) == [q \in DOMAIN f \cup {path} |-> IF q = path THEN file ELSE f[q]]

\* os.remove(path)
Remove(f, path) == [q \in DOMAIN f \ {path} |-> f[q]]

\* os.rename(src, dst), shutil.move(src, dst): dst is replaced when it exists
Rename(f, src, dst) == Put(Remove(f, src), dst, f[src])

\* os.listdir(dir) filtered by os.path.isfile
ListFiles(dir) == {q \in DOMAIN fs : q.dir = dir}

DefaultArgs ==
    [crop |-> FALSE, remove_bg |-> FALSE, resize |-> <<>>, padding |-> 0,
     background |-> <<>>, settings |-> "None"]

\* the intake directory holds files of one size and content box
InitFiles(names, size, box, b) ==
    [q \in {Join(InputDir, n) : n \in names} |->
        File(SourceImage(q.name, size, box, q.name \notin b))]

InitCommon ==
    /\ dirs = {}
    /\ inputs = <<>>
    /\ idx = 0
    /\ resize = <<>>
    /\ cur = [input_path |-> NoPath, output_path |-> NoPath]
    /\ image = NoImage
    /\ pending = <<>>
    /\ exc = <<>>
    /\ out = <<>>

InitBatch(p) ==
    /\ prog = p
    /\ \E names \in Intakes, size \in Sizes, box \in {<<>>, <<1, 1>>} :
         \E b \in SUBSET names : bad = b /\ fs = InitFiles(names, size, box, b)
    /\ InitCommon

\* python imager.py [-c] [-b] [-r AxB] [-p N]
InitImager ==
    /\ InitBatch("imager")
    /\ \E c, b \in BOOLEAN, r \in ResizeStrings, p \in 0..MaxPad :
         args = [DefaultArgs EXCEPT !.crop = c, !.remove_bg = b, !.resize = r, !.padding = p]
    /\ pc = "main"

\* the statement reached when the program has ended
Halt == "halt"

Raise(type, function) ==
    /\ exc' = <<type, function>>
    /\ pc' = Halt

NeedProcessing == args.crop \/ resize # <<>> \/ args.remove_bg

\* open(path, 'wb') and the write that follows it, as two steps: the file is
\* created or truncated now, its data arrives with FlushWrite
BeginWrite(path, img, next) ==
    /\ fs' = Put(fs, path, OpenedFile)
    /\ pending' = <<[path |-> path, img |-> img, next |-> next]>>
    /\ pc' = "write"

\* temp_file.write(image_data), new_img.save(...), the copy of shutil.copy
FlushWrite ==
    /\ pc = "write"
    /\ fs' = Put(fs, pending[1].path, File(pending[1].img))
    /\ pc' = pending[1].next
    /\ pending' = <<>>
    /\ UNCHANGED <<prog, args, bad, dirs, inputs, idx, resize, cur, image, exc, out>>

\* ------------------------------------------------------------------ imager.py
Ok(img) == [err |-> "", img |-> img]
Err(type) == [err |-> type, img |-> NoImage]

\* the canvas of resize-and-pad with the fitted image pasted at its centre
Padded(img, width, height, fit) ==
    [img EXCEPT !.stages = @ \o <<"r">>, !.w = width, !.h = height, !.fit = fit,
                !.at = PastePosition(width, height, fit[1], fit[2])]

\* resize_and_pad_image(image_path, output_path, dimensions, padding) of
\* imager.py up to its save: the image it saves, or the exception it raises
ResizeAndPadImage(img, dimensions, padding) ==
    LET content_width == dimensions[1] - 2 * padding
        content_height == dimensions[2] - 2 * padding
        fits == content_width >= img.w /\ content_height >= img.h
        size == ThumbnailSize(img.w, img.h, content_width, content_height)
    IN  IF ~img.ok THEN {Err("UnidentifiedImageError")}
        ELSE IF ~fits /\ content_height = 0 THEN {Err("ZeroDivisionError")}
        ELSE IF ~fits /\ SizeRejected(size) THEN {Err("ValueError")}
        ELSE IF SizeNegative(dimensions) THEN {Err("ValueError")}
        ELSE {Ok(Padded(img, dimensions[1], dimensions[2], size))}

\* main: the options are parsed, the resize string is converted
Main ==
    /\ pc = "main"
    /\ IF args.resize # <<>> /\ ~ResizeParses(args.resize)
       THEN /\ Raise("ValueError", "main")
            /\ out' = Append(out, "Invalid format for resize dimensions. Please use 'AxB'.")
            /\ UNCHANGED resize
       ELSE /\ resize' = IF args.resize # <<>> THEN ParseResize(args.resize) ELSE <<>>
            /\ pc' = "process_images"
            /\ UNCHANGED <<exc, out>>
    /\ UNCHANGED <<prog, args, bad, fs, dirs, inputs, idx, cur, image, pending>>

\* process_images up to its loop: the directories are made, the intake is listed
ListInputs(first) ==
    /\ dirs' = dirs \cup {ProcessedDir, OutputDir}
    /\ \E order \in Orders(ListFiles(InputDir)) : inputs' = order
    /\ IF inputs' = <<>>
       THEN /\ out' = Append(out, "No images found in the input directory.")
            /\ pc' = Halt
            /\ UNCHANGED idx
       ELSE /\ idx' = 1
            /\ pc' = first
            /\ UNCHANGED out
    /\ UNCHANGED <<prog, args, bad, fs, resize, cur, image, pending, exc>>

ProcessImagesSetup ==
    /\ pc = "process_images"
    /\ ListInputs("loop")

\* the head of the loop of process_images: the output path of the next input
ProcessImagesLoop ==
    /\ pc = "loop"
    /\ idx <= Len(inputs)
    /\ cur' = [input_path |-> inputs[idx],
               output_path |-> Join(OutputDir,
                   GenerateOutputFilename(inputs[idx], args.remove_bg, args.crop, resize))]
    /\ pc' = "pi_read"
    /\ UNCHANGED <<prog, args, bad, fs, dirs, inputs, idx, resize, image, pending, exc, out>>

\* the loop of process_images is exhausted
ProcessImagesFinish ==
    /\ pc = "loop"
    /\ idx > Len(inputs)
    /\ out' = Append(out, "All images have been processed.")
    /\ pc' = Halt
    /\ UNCHANGED <<prog, args, bad, fs, dirs, inputs, idx, resize, cur, image, pending, exc>>

\* process_image: the input file is read
PiRead ==
    /\ pc = "pi_read"
    /\ image' = fs[cur.input_path].img
    /\ pc' = "pi_stage"
    /\ UNCHANGED <<prog, args, bad, fs, dirs, inputs, idx, resize, cur, pending, exc, out>>

\* process_image: the background is removed and the temporary file is written
PiStage ==
    /\ pc = "pi_stage"
    /\ IF NeedProcessing \/ args.padding # 0
       THEN IF args.remove_bg
            THEN IF image.src \in bad
                 THEN /\ Raise("UnidentifiedImageError", "process_image")
                      /\ UNCHANGED <<fs, image, pending>>
                 ELSE /\ image' = RemBg(image)
                      /\ BeginWrite(TempPath(cur.output_path), RemBg(image), "pi_crop")
                      /\ UNCHANGED exc
            ELSE /\ BeginWrite(TempPath(cur.output_path), image, "pi_crop")
                 /\ UNCHANGED <<image, exc>>
       ELSE /\ pc' = "pi_crop"
            /\ UNCHANGED <<fs, image, pending, exc>>
    /\ UNCHANGED <<prog, args, bad, dirs, inputs, idx, resize, cur, out>>

\* process_image: autocrop_image(temp_path, temp_path)
PiCrop ==
    /\ pc = "pi_crop"
    /\ IF args.crop
       THEN IF ~fs[TempPath(cur.output_path)].img.ok
            THEN /\ Raise("UnidentifiedImageError", "process_image")
                 /\ UNCHANGED <<fs, pending>>
            ELSE /\ BeginWrite(TempPath(cur.output_path),
                               Autocrop(fs[TempPath(cur.output_path)].img), "pi_final")
                 /\ UNCHANGED exc
       ELSE /\ pc' = "pi_final"
            /\ UNCHANGED <<fs, pending, exc>>
    /\ UNCHANGED <<prog, args, bad, dirs, inputs, idx, resize, cur, image, out>>

\* adjusted_resize of process_image
AdjustedResize(dimensions, padding) ==
    IF padding # 0
    THEN <<dimensions[1] - 2 * padding, dimensions[2] - 2 * padding>>
    ELSE dimensions

\* process_image, resize set: resize_and_pad_image saves to output_path
PiResize ==
    /\ pc = "pi_final"
    /\ resize # <<>>
    /\ \E o \in ResizeAndPadImage(fs[TempPath(cur.output_path)].img,
                                  AdjustedResize(resize, args.padding), args.padding) :
         IF o.err # ""
         THEN /\ Raise(o.err, "process_image")
              /\ UNCHANGED <<fs, pending>>
         ELSE /\ BeginWrite(cur.output_path, o.img, "pi_rmtemp")
              /\ UNCHANGED exc
    /\ UNCHANGED <<prog, args, bad, dirs, inputs, idx, resize, cur, image, out>>

\* process_image: os.remove(temp_path) after resizing
PiRemoveTemp ==
    /\ pc = "pi_rmtemp"
    /\ fs' = Remove(fs, TempPath(cur.output_path))
    /\ pc' = "pi_return"
    /\ UNCHANGED <<prog, args, bad, dirs, inputs, idx, resize, cur, image, pending, exc, out>>

\* os.rename(temp_path, output_path)
RenameTemp ==
    /\ fs' = Rename(fs, TempPath(cur.output_path), cur.output_path)
    /\ pc' = "pi_return"
    /\ UNCHANGED <<pending, exc>>

\* process_image, crop without resize: crop_width is no name of the function
PiCropFinal ==
    /\ pc = "pi_final"
    /\ resize = <<>>
    /\ args.crop
    /\ IF args.padding > 0
       THEN /\ Raise("NameError", "process_image")
            /\ UNCHANGED <<fs, pending>>
       ELSE RenameTemp
    /\ UNCHANGED <<prog, args, bad, dirs, inputs, idx, resize, cur, image, out>>

\* process_image, background removal alone: the temporary file is renamed
PiFinalize ==
    /\ pc = "pi_final"
    /\ resize = <<>>
    /\ ~args.crop
    /\ NeedProcessing
    /\ RenameTemp
    /\ UNCHANGED <<prog, args, bad, dirs, inputs, idx, resize, cur, image, out>>

\* process_image, no processing, with the copy to output_path left out
PiCopyLeftOut ==
    /\ pc = "pi_final"
    /\ resize = <<>>
    /\ ~args.crop
    /\ ~NeedProcessing
    /\ pc' = "pi_return"
    /\ UNCHANGED <<prog, args, bad, fs, dirs, inputs, idx, resize, cur, image, pending, exc,
                   out>>

\* process_image, no processing: shutil.copy(input_path, output_path)
PiCopy ==
    /\ pc = "pi_final"
    /\ resize = <<>>
    /\ ~args.crop
    /\ ~NeedProcessing
    /\ BeginWrite(cur.output_path, fs[cur.input_path].img, "pi_return")
    /\ UNCHANGED <<prog, args, bad, dirs, inputs, idx, resize, cur, image, exc, out>>

\* process_images: the input is moved to the archive, the loop advances
MoveInput ==
    /\ pc = "pi_return"
    /\ fs' = Rename(fs, cur.input_path, Join(ProcessedDir, Basename(cur.input_path)))
    /\ idx' = idx + 1
    /\ pc' = "loop"
    /\ UNCHANGED <<prog, args, bad, dirs, inputs, resize, cur, image, pending, exc, out>>

\* ------------------------------------------------------------------ image_processor.py
\* process_images(crop=, remove_bg=, resize=, padding=, background=)
InitImageProcessor ==
    /\ InitBatch("image_processor")
    /\ \E c, b \in BOOLEAN, r \in {q \in ResizeStrings : q = <<>> \/ ResizeParses(q)},
          p \in 0..MaxPad, g \in {<<>>, Tan} :
         /\ args = [DefaultArgs EXCEPT !.crop = c, !.remove_bg = b, !.resize = r,
                                       !.padding = p, !.background = g]
         /\ resize = IF r = <<>> THEN <<>> ELSE ParseResize(r)
    /\ pc = "ip_process_images"

IPProcessImagesSetup ==
    /\ pc = "ip_process_images"
    /\ ListInputs("ip_loop")

\* the head of the loop of process_images of image_processor.py
IPProcessImagesLoop ==
    /\ pc = "ip_loop"
    /\ idx <= Len(inputs)
    /\ cur' = [input_path |-> inputs[idx],
               output_path |-> Join(OutputDir,
                   IPGenerateOutputFilename(inputs[idx], args.remove_bg, args.crop, resize,
                                            args.background))]
    /\ pc' = "ip_call"
    /\ UNCHANGED <<prog, args, bad, fs, dirs, inputs, idx, resize, image, pending, exc, out>>

\* process_image(input_path, output_path, crop=crop, ...): output_path binds
\* the second parameter, crop, which the keyword crop= binds again; Python
\* raises TypeError before the body runs, so the move of line 244 and the
\* print of line 246 are never reached
IPProcessImagesCall ==
    /\ pc = "ip_call"
    /\ Raise("TypeError", "process_images")
    /\ UNCHANGED <<prog, args, bad, fs, dirs, inputs, idx, resize, cur, image, pending, out>>

\* resize_and_pad_image(image, dimensions, padding) of image_processor.py: the
\* image it returns, or the exception it raises
IPResizeAndPadImage(img, dimensions, padding) ==
    LET content_width == dimensions[1] - 2 * padding
        content_height == dimensions[2] - 2 * padding
        fit == FitSize(img.w, img.h, content_width, content_height)
    IN  IF content_height = 0 THEN {Err("ZeroDivisionError")}
        ELSE IF SizeRejected(fit) \/ SizeNegative(dimensions) THEN {Err("ValueError")}
        ELSE {Ok(Padded(img, dimensions[1], dimensions[2], fit))}

\* process_image: if remove_bg
IPRemoveBg ==
    /\ pc = "ip_remove_bg"
    /\ IF args.remove_bg /\ image.src \in bad
       THEN /\ Raise("RemoveError", "remove_bg_func")
            /\ UNCHANGED image
       ELSE /\ image' = IF args.remove_bg THEN RemBg(image) ELSE image
            /\ pc' = "ip_crop"
            /\ UNCHANGED exc
    /\ UNCHANGED <<prog, args, bad, fs, dirs, inputs, idx, resize, cur, pending, out>>

\* process_image with the test of crop left out: autocrop runs for every image
IPCropUnconditional ==
    /\ pc = "ip_crop"
    /\ image' = Autocrop(image)
    /\ pc' = "ip_resize"
    /\ UNCHANGED <<prog, args, bad, fs, dirs, inputs, idx, resize, cur, pending, exc, out>>

\* process_image: if crop
IPCrop ==
    /\ pc = "ip_crop"
    /\ image' = IF args.crop THEN Autocrop(image) ELSE image
    /\ pc' = "ip_resize"
    /\ UNCHANGED <<prog, args, bad, fs, dirs, inputs, idx, resize, cur, pending, exc, out>>

\* process_image: if resize
IPResize ==
    /\ pc = "ip_resize"
    /\ IF resize # <<>>
       THEN \E o \in IPResizeAndPadImage(image, resize, args.padding) :
              IF o.err # ""
              THEN /\ Raise(o.err, "resize_and_pad_image")
                   /\ UNCHANGED image
              ELSE /\ image' = o.img
                   /\ pc' = "ip_background"
                   /\ UNCHANGED exc
       ELSE /\ pc' = "ip_background"
            /\ UNCHANGED <<image, exc>>
    /\ UNCHANGED <<prog, args, bad, fs, dirs, inputs, idx, resize, cur, pending, out>>

\* process_image: if background
IPBackground ==
    /\ pc = "ip_background"
    /\ IF args.background # <<>>
       THEN /\ image' = AddBackground(image, args.background)
            /\ out' = IF BackgroundWarns(args.background)
                      THEN Append(out, "Invalid color. Using default color.")
                      ELSE out
       ELSE UNCHANGED <<image, out>>
    /\ pc' = "ip_return"
    /\ UNCHANGED <<prog, args, bad, fs, dirs, inputs, idx, resize, cur, pending, exc>>

\* ------------------------------------------------------------------ bgremove.py
InitBgremove ==
    /\ InitBatch("bgremove")
    /\ args = DefaultArgs
    /\ pc = "bgremove"

\* the directories are made and the intake is listed
BgremoveSetup ==
    /\ pc = "bgremove"
    /\ dirs' = dirs \cup {ProcessedDir, OutputDir}
    /\ \E order \in Orders(ListFiles(InputDir)) : inputs' = order
    /\ idx' = 1
    /\ pc' = "bg_loop"
    /\ UNCHANGED <<prog, args, bad, fs, resize, cur, image, pending, exc, out>>

\* the body of the loop up to the write of the output
BgremoveProcess ==
    /\ pc = "bg_loop"
    /\ idx <= Len(inputs)
    /\ cur' = [input_path |-> inputs[idx],
               output_path |-> Join(OutputDir, Basename(inputs[idx]))]
    /\ IF fs[inputs[idx]].img.src \in bad
       THEN /\ Raise("UnidentifiedImageError", "<module>")
            /\ UNCHANGED <<fs, pending>>
       ELSE /\ BeginWrite(cur'.output_path, RemBg(fs[inputs[idx]].img), "bg_move")
            /\ UNCHANGED exc
    /\ UNCHANGED <<prog, args, bad, dirs, inputs, idx, resize, image, out>>

\* the input is moved to the archive
BgremoveMove ==
    /\ pc = "bg_move"
    /\ fs' = Rename(fs, cur.input_path, Join(ProcessedDir, Basename(cur.input_path)))
    /\ idx' = idx + 1
    /\ pc' = "bg_loop"
    /\ UNCHANGED <<prog, args, bad, dirs, inputs, resize, cur, image, pending, exc, out>>

BgremoveFinish ==
    /\ pc = "bg_loop"
    /\ idx > Len(inputs)
    /\ out' = Append(out, "All images have been processed.")
    /\ pc' = Halt
    /\ UNCHANGED <<prog, args, bad, fs, dirs, inputs, idx, resize, cur, image, pending, exc>>

\* ------------------------------------------------------------------ gradio_imager.py
ExamplesDir == "data/examples"

Settings == {"None", "S light", "M dark", "XL"}

Preset(c, b, r, p, g) ==
    [crop |-> c, remove_bg |-> b, resize |-> r, padding |-> p, background |-> g]

\* apply_standard_settings; the None of an unknown setting is FALSE, <<>>, 0
ApplyStandardSettings(setting) ==
    CASE setting = "S light" ->
           Preset(TRUE, TRUE, <<"2", "4", "0", "x", "2", "4", "0">>, 48, Whitesmoke)
      [] setting = "M light" ->
           Preset(TRUE, TRUE, <<"4", "8", "0", "x", "4", "8", "0">>, 96, Whitesmoke)
      [] setting = "L light" ->
           Preset(TRUE, TRUE, <<"9", "6", "0", "x", "9", "6", "0">>, 128, Whitesmoke)
      [] setting = "S dark" ->
           Preset(TRUE, TRUE, <<"2", "4", "0", "x", "2", "4", "0">>, 48, DarkPreset)
      [] setting = "M dark" ->
           Preset(TRUE, TRUE, <<"4", "8", "0", "x", "4", "8", "0">>, 96, DarkPreset)
      [] setting = "L dark" ->
           Preset(TRUE, TRUE, <<"9", "6", "0", "x", "9", "6", "0">>, 128, DarkPreset)
      [] OTHER -> Preset(FALSE, FALSE, <<>>, 0, <<>>)

\* crop, remove_bg, resize, padding, background after the standard settings
\* have replaced the fields of the form
EffectiveArgs(a) ==
    IF a.settings # "None"
    THEN LET s == ApplyStandardSettings(a.settings)
         IN  [a EXCEPT !.crop = s.crop, !.remove_bg = s.remove_bg, !.resize = s.resize,
                       !.padding = s.padding, !.background = s.background]
    ELSE a

\* gradio_interface(image, standard_settings, crop, remove_bg, resize, padding,
\* background); image is NoImage when nothing was uploaded
InitGradio ==
    /\ prog = "gradio"
    /\ \E size \in UploadSizes, box \in {<<>>, <<1, 1>>}, up \in BOOLEAN :
         /\ fs = [q \in {Join(ExamplesDir, Supermario)} |->
                    File(SourceImage(Supermario, size, box, TRUE))]
         /\ image = IF up THEN SourceImage(Upload, size, box, TRUE) ELSE NoImage
    /\ bad \in {{}, {Upload, Supermario}}
    /\ \E s \in Settings, r \in ResizeTexts :
         \/ /\ s = "None"
            /\ \E c, b \in BOOLEAN, p \in 0..MaxPad, g \in Backgrounds :
                 args = [DefaultArgs EXCEPT !.crop = c, !.remove_bg = b, !.resize = r,
                                            !.padding = p, !.background = g]
         \/ /\ s # "None"
            /\ args = [DefaultArgs EXCEPT !.settings = s, !.resize = r,
                                          !.background = White]
    /\ dirs = {}
    /\ inputs = <<>>
    /\ idx = 0
    /\ resize = <<>>
    /\ cur = [input_path |-> NoPath, output_path |-> NoPath]
    /\ pending = <<>>
    /\ exc = <<>>
    /\ out = <<>>
    /\ pc = "gradio_interface"

\* gradio_interface up to the call of process_image
GradioInterface ==
    /\ pc = "gradio_interface"
    /\ image' = IF image = NoImage THEN fs[Join(ExamplesDir, Supermario)].img ELSE image
    /\ args' = EffectiveArgs(args)
    /\ IF args'.resize # <<>> /\ ~ResizeParses(args'.resize)
       THEN /\ out' = Append(out, "Invalid format for resize dimensions. Please use 'WxH'.")
            /\ pc' = Halt
            /\ UNCHANGED resize
       ELSE /\ resize' = IF args'.resize # <<>> THEN ParseResize(args'.resize) ELSE <<>>
            /\ pc' = "ip_remove_bg"
            /\ UNCHANGED out
    /\ UNCHANGED <<prog, bad, fs, dirs, inputs, idx, cur, pending, exc>>

\* gradio_interface returns the processed image and the settings
GradioReturn ==
    /\ pc = "ip_return"
    /\ out' = Append(out, "processed_image")
    /\ pc' = Halt
    /\ UNCHANGED <<prog, args, bad, fs, dirs, inputs, idx, resize, cur, image, pending, exc>>

\* ------------------------------------------------------------------ specification
Init == InitImager \/ InitImageProcessor \/ InitBgremove \/ InitGradio

Next ==
    \/ Main
    \/ ProcessImagesSetup
    \/ ProcessImagesLoop
    \/ ProcessImagesFinish
    \/ PiRead
    \/ PiStage
    \/ FlushWrite
    \/ PiCrop
    \/ PiResize
    \/ PiRemoveTemp
    \/ PiCropFinal
    \/ PiFinalize
    \/ PiCopy
    \/ MoveInput
    \/ IPProcessImagesSetup
    \/ IPProcessImagesLoop
    \/ IPProcessImagesCall
    \/ BgremoveSetup
    \/ BgremoveProcess
    \/ BgremoveMove
    \/ BgremoveFinish
    \/ GradioInterface
    \/ IPRemoveBg
    \/ IPCrop
    \/ IPResize
    \/ IPBackground
    \/ GradioReturn

Spec == Init /\ [][Next]_vars

\* ------------------------------------------------------------------ claims
\* the program runs process_image of imager.py for cur
InProcessImage == prog = "imager" /\ cur.output_path # NoPath

\* the file at path is created or its content changes in this step
Changed(path) == (path \in DOMAIN fs') /\ (Exists(path) => fs'[path] # fs[path])

\* this step is os.rename(temp_path, output_path)
IsRenameOfTemp ==
    /\ Exists(TempPath(cur.output_path))
    /\ TempPath(cur.output_path) \notin DOMAIN fs'
    /\ fs'[cur.output_path] = fs[TempPath(cur.output_path)]

\* the stages the options ask process_image of imager.py for, in order
RequestedStages ==
    (IF args.remove_bg THEN <<"b">> ELSE <<>>) \o (IF args.crop THEN <<"c">> ELSE <<>>)
        \o (IF resize # <<>> THEN <<"r">> ELSE <<>>)

\* C1: in process_image of imager.py the destination output_path is created or
\* changed only by the rename of the temporary file, and in every state it is
\* either untouched or holds the fully processed image, never a partial one.
C1_DestinationOnlyByRename ==
    /\ [](InProcessImage /\ Exists(cur.output_path)
            => /\ fs[cur.output_path].state = "full"
               /\ fs[cur.output_path].img.stages = RequestedStages)
    /\ [][InProcessImage /\ Changed(cur.output_path) => IsRenameOfTemp]_vars


\* C2: when process_image of imager.py has returned or raised, the temporary
\* file output_path + ".tmp.png" does not exist.
C2_NoTempFileAfterCall ==
    InProcessImage /\ (pc = "pi_return" \/ (pc = Halt /\ exc # <<>>))
        => ~Exists(TempPath(cur.output_path))

BatchProgs == {"imager", "image_processor", "bgremove"}

\* C3: a failure on one listed file is caught and every later file of the
\* listing is still processed: a batch ends only with the listing exhausted
\* and no exception escaping.
C3_FailureDoesNotStopBatch ==
    prog \in BatchProgs /\ pc = Halt /\ inputs # <<>>
        => exc = <<>> /\ idx > Len(inputs)

\* the output path the batch runner of prog gives an input
OutputPathOf(input_path) ==
    Join(OutputDir,
         CASE prog = "imager" ->
                GenerateOutputFilename(input_path, args.remove_bg, args.crop, resize)
           [] prog = "image_processor" ->
                IPGenerateOutputFilename(input_path, args.remove_bg, args.crop, resize,
                                         args.background)
           [] OTHER -> Basename(input_path))

ArchivePath(input_path) == Join(ProcessedDir, Basename(input_path))

\* this step moves the input of the iteration into the archive
MovesToArchive == Exists(cur.input_path) /\ ArchivePath(cur.input_path) \in DOMAIN fs'
                    /\ cur.input_path \notin DOMAIN fs'

\* the output of the iteration's input is in output_dir, written in full by a
\* call that did not fail
OutputWritten ==
    /\ exc = <<>>
    /\ Exists(OutputPathOf(cur.input_path))
    /\ fs[OutputPathOf(cur.input_path)].state = "full"
    /\ fs[OutputPathOf(cur.input_path)].img.src = Basename(cur.input_path)

\* C4: an input is moved to input_dir/processed only after its output has
\* been written in full to output_dir by a call that did not fail, and an
\* input whose processing failed stays in the intake directory.
C4_ArchiveOnlyAfterOutput ==
    /\ [][MovesToArchive /\ prog \in BatchProgs => OutputWritten]_vars
    /\ [](prog \in BatchProgs /\ pc = Halt /\ exc # <<>> /\ inputs # <<>>
            => Exists(inputs[idx]) /\ ~Exists(ArchivePath(inputs[idx])))
    /\ [](prog \in BatchProgs
            => \A q \in DOMAIN fs : q.dir = ProcessedDir
                 => \E i \in 1..Len(inputs) : i < idx /\ inputs[i] = Join(InputDir, q.name)
                                                /\ Exists(OutputPathOf(inputs[i])))

C4_Witness ==
    /\ prog = "imager"
    /\ pc = "loop"
    /\ \E q \in DOMAIN fs : q.dir = ProcessedDir /\ Exists(OutputPathOf(Join(InputDir, q.name)))
    /\ \E q \in DOMAIN fs : q.dir = InputDir

\* C5: with every file decodable and the background remover succeeding, a
\* batch of imager.py or image_processor.py over a non-empty intake ends with
\* the output of every listed file in output_dir and every input archived.
C5_BatchCompletes ==
    prog \in {"imager", "image_processor"} /\ bad = {} /\ inputs # <<>> /\ pc = Halt
        => /\ exc = <<>>
           /\ \A i \in 1..Len(inputs) :
                /\ Exists(OutputPathOf(inputs[i]))
                /\ Exists(ArchivePath(inputs[i]))
                /\ ~Exists(inputs[i])

\* the requested target exceeds twice the padding in both dimensions
ValidGeometry == resize # <<>> /\ resize[1] > 2 * args.padding /\ resize[2] > 2 * args.padding

\* C6: for a target (W, H) and padding p with W > 2p and H > 2p the image the
\* resize-and-pad stage produces is exactly W x H, in imager.py (the file
\* saved at output_path) and in image_processor.py (the image returned).
C6_ExactTargetSize ==
    /\ prog = "imager" /\ pc = "pi_rmtemp" /\ ValidGeometry
         => /\ fs[cur.output_path].img.w = resize[1]
            /\ fs[cur.output_path].img.h = resize[2]
    /\ prog = "gradio" /\ pc = "ip_background" /\ ValidGeometry
         => image.w = resize[1] /\ image.h = resize[2]


\* the names of the pool without their extensions
BaseName(name) == IF name = BFile THEN <<"b">> ELSE <<"a">>

\* the suffix tokens of an output name
TokenB == <<"_", "b">>
TokenC == <<"_", "c">>
TokenBg == <<"_", "b", "g">>
TokenSize(dimensions) ==
    <<"_">> \o IntStr(dimensions[1]) \o <<"x">> \o IntStr(dimensions[2])

\* the name (a batch runner has just derived it for the input of the iteration)
NameDerived == pc \in {"pi_read", "ip_call"}

\* C7 as stated: the output name is the base name, then "_b", "_c", "_{W}x{H}"
\* and "_bg" for the stages applied, in this order, then ".png", in imager.py
\* and in image_processor.py alike.
C7_SuffixTokens ==
    NameDerived
        => cur.output_path.name =
             BaseName(Basename(cur.input_path))
               \o (IF args.remove_bg THEN TokenB ELSE <<>>)
               \o (IF args.crop THEN TokenC ELSE <<>>)
               \o (IF resize # <<>> THEN TokenSize(resize) ELSE <<>>)
               \o (IF args.background # <<>> THEN TokenBg ELSE <<>>)
               \o DotPng

\* C7 as amended: image_processor.py derives the name as stated; imager.py
\* appends "_b" and "_c" alike, but names the size only when the image is also
\* cropped, as "{W}x{H}" with no underscore before it, and has no "_bg" token.
C7_SuffixTokensPerModule ==
    /\ pc = "ip_call"
         => cur.output_path.name =
              BaseName(Basename(cur.input_path))
                \o (IF args.remove_bg THEN TokenB ELSE <<>>)
                \o (IF args.crop THEN TokenC ELSE <<>>)
                \o (IF resize # <<>> THEN TokenSize(resize) ELSE <<>>)
                \o (IF args.background # <<>> THEN TokenBg ELSE <<>>)
                \o DotPng
    /\ pc = "pi_read"
         => cur.output_path.name =
              BaseName(Basename(cur.input_path))
                \o (IF args.remove_bg THEN TokenB ELSE <<>>)
                \o (IF args.crop THEN TokenC ELSE <<>>)
                \o (IF resize # <<>> /\ args.crop THEN Tail(TokenSize(resize)) ELSE <<>>)
                \o DotPng

C7_Witness ==
    /\ pc = "pi_read"
    /\ args.crop /\ args.remove_bg
    /\ resize = <<6, 2>>
    /\ cur.output_path.name = <<"a", "_", "b", "_", "c", "6", "x", "2">> \o DotPng

\* the content of the resize stage would not be positive in both dimensions
NonPositiveContent ==
    resize # <<>> /\ (resize[1] - 2 * args.padding <= 0 \/ resize[2] - 2 * args.padding <= 0)

\* C8: when resize[0] - 2*padding <= 0 or resize[1] - 2*padding <= 0 the
\* resize-and-pad stage fails: no file is written at the destination path
\* (imager.py) and no image is returned (image_processor.py).
C8_NonPositiveContentFails ==
    /\ InProcessImage /\ NonPositiveContent
         => ~Exists(cur.output_path) /\ pc # "pi_return"
    /\ prog = "gradio" /\ NonPositiveContent
         => pc \in {"gradio_interface", "ip_remove_bg", "ip_crop", "ip_resize", Halt}
            /\ (pc = Halt => exc # <<>>)

InvalidColorWarning == "Invalid color. Using default color."

\* C9: for a background string that is no valid color add_background raises
\* nothing, composites the image over white and records a warning.
C9_InvalidBackgroundWarns ==
    prog = "gradio" /\ pc = "ip_return" /\ args.background # <<>>
      /\ ~ValidColor(args.background)
        => /\ exc = <<>>
           /\ image.bg = DefaultColor
           /\ \E i \in 1..Len(out) : out[i] = InvalidColorWarning

\* an integer in decimal: an optional sign and at least one digit
IsInteger(p) ==
    \/ p # <<>> /\ \A i \in 1..Len(p) : p[i] \in Digit
    \/ Len(p) > 1 /\ p[1] \in {"-", "+"} /\ \A i \in 2..Len(p) : p[i] \in Digit

\* s is WIDTHxHEIGHT with two integers
IsWidthXHeight(s) ==
    \E k \in 1..Len(s) :
        s[k] = "x" /\ IsInteger(SubSeq(s, 1, k - 1)) /\ IsInteger(SubSeq(s, k + 1, Len(s)))

\* the resize string of the invocation: the --resize option, or the Resize
\* field of the form after the standard settings have replaced it
ResizeString == IF prog = "gradio" THEN EffectiveArgs(args).resize ELSE args.resize

MalformedResize ==
    prog \in {"imager", "gradio"} /\ ResizeString # <<>> /\ ~IsWidthXHeight(ResizeString)

GivenImage ==
    IF prog = "gradio"
    THEN [fs[Join(ExamplesDir, Supermario)].img EXCEPT !.src = image.src]
    ELSE SourceImage(cur.input_path.name, <<image.w, image.h>>, image.box,
                     cur.input_path.name \notin bad)

\* what the stages other than resize-and-pad make of img
WithoutResize(img) ==
    LET b == IF args.remove_bg THEN RemBg(img) ELSE img
    IN  IF args.crop THEN Autocrop(b) ELSE b

\* process_image has raised
CallRaised == pc = Halt /\ exc # <<>> /\ exc[2] \in {"process_image", "remove_bg_func"}

\* C11: with resize not set, padding has no effect on process_image: whatever
\* crop, remove_bg and padding >= 0 are, the call ends as it does with
\* padding = 0. It fails only on an image a stage cannot decode, the
\* destination (imager.py) or the image handed to the background stage
\* (image_processor.py) is the given image after background removal and
\* autocrop alone, and no file but the destination is left on disk.
C11_PaddingWithoutResizeNoEffect ==
    /\ InProcessImage /\ resize = <<>> /\ CallRaised
         => cur.input_path.name \in bad /\ (args.crop \/ args.remove_bg)
    /\ InProcessImage /\ resize = <<>> /\ pc = "pi_return"
         => /\ Exists(cur.output_path)
            /\ fs[cur.output_path].img.stages = RequestedStages
            /\ ~Exists(TempPath(cur.output_path))
    /\ prog = "gradio" /\ resize = <<>> /\ CallRaised
         => image.src \in bad /\ args.remove_bg
    /\ prog = "gradio" /\ resize = <<>> /\ pc = "ip_background"
         => image = WithoutResize(GivenImage)

\* the stages the options ask process_image for, in the order of the claim:
\* background composition is a stage of image_processor.py only
AllStages ==
    RequestedStages
        \o (IF prog = "gradio" /\ args.background # <<>> THEN <<"bg">> ELSE <<>>)

IsPrefix(s, t) == Len(s) <= Len(t) /\ SubSeq(t, 1, Len(s)) = s

\* the files process_image of imager.py hands from stage to stage
StageFiles == {TempPath(cur.output_path), cur.output_path} \cap DOMAIN fs

\* C12: process_image applies background removal, autocrop, resize-and-pad and
\* background composition (imager.py: the first three) in this order, each
\* only when its flag or option is set and each on the output of the stage
\* before it: the stages an image has been through are at every moment a
\* prefix of the stages asked for, all of them when the call returns; the
\* resize stage fits the size the earlier stages left; with no flag set the
\* image given is the image delivered.
C12_StagesInFixedOrder ==
    /\ prog = "gradio" => IsPrefix(image.stages, AllStages)
    /\ prog = "gradio" /\ pc = "ip_return" => image.stages = AllStages
    /\ prog = "gradio" /\ pc = "ip_return" /\ AllStages = <<>> => image = GivenImage
    /\ prog = "gradio" /\ pc = "ip_background" /\ resize # <<>>
         => image.fit = FitSize(WithoutResize(GivenImage).w, WithoutResize(GivenImage).h,
                                resize[1] - 2 * args.padding, resize[2] - 2 * args.padding)
    /\ InProcessImage => \A path \in StageFiles : IsPrefix(fs[path].img.stages, AllStages)
    /\ InProcessImage /\ pc = "pi_return" => fs[cur.output_path].img.stages = AllStages
    /\ InProcessImage /\ pc = "pi_return" /\ AllStages = <<>>
         => fs[cur.output_path].img = GivenImage

C12_Witness ==
    /\ prog = "gradio"
    /\ pc = "ip_return"
    /\ image.stages = <<"b", "c", "r", "bg">>
    /\ image.box # <<>>

\* a pure pass-through: no background removal, no crop, no resize, no background
ZeroFlags == ~args.remove_bg /\ ~args.crop /\ resize = <<>> /\ args.background = <<>>

\* C13 as stated: for a pass-through with zero flags generate_output_filename
\* of imager.py and of image_processor.py returns a name that keeps the
\* extension of the input: the output for "a.jpg" is named "a.jpg".
C13_PassThroughKeepsExtension ==
    NameDerived /\ ZeroFlags
        => cur.output_path.name =
             BaseName(Basename(cur.input_path)) \o SplitextExt(Basename(cur.input_path))

\* C13 as amended: for a pass-through with zero flags the name returned is the
\* base name of the input with no suffix token and with ".png" in place of the
\* extension of the input: the output for "a.jpg" is named "a.png".
C13_PassThroughNamedPng ==
    NameDerived /\ ZeroFlags
        => cur.output_path.name = BaseName(Basename(cur.input_path)) \o DotPng

C13_Witness ==
    /\ pc = "ip_call"
    /\ ZeroFlags
    /\ Basename(cur.input_path) = AJpg
    /\ cur.output_path.name = <<"a">> \o DotPng

\* the fitted size as the claim computes it, in exact arithmetic
ClaimedFit(w, h, cw, ch) ==
    IF cw * h > w * ch THEN <<Trunc(ch * w, h), ch>> ELSE <<cw, Trunc(cw * h, w)>>

\* the content size of the resize stage
ContentSize == <<resize[1] - 2 * args.padding, resize[2] - 2 * args.padding>>

\* resize_and_pad_image of image_processor.py has returned for a content size
\* of at least 1 x 1
Fitted ==
    /\ prog = "gradio" /\ pc = "ip_background" /\ resize # <<>>
    /\ ContentSize[1] >= 1 /\ ContentSize[2] >= 1

\* C14: for a source of w x h and a content of cw x ch, all at least 1,
\* resize_and_pad_image of image_processor.py fits the image height-bound when
\* cw/ch > w/h (new_height = ch, new_width = ch*w/h truncated) and width-bound
\* otherwise (new_width = cw, new_height = cw*h/w truncated); new_width <= cw
\* and new_height <= ch with one of the two equal to its bound; the paste
\* offset is ((W - new_width) // 2, (H - new_height) // 2), both at least padding.
C14_FittedSizeAndOffset ==
    Fitted
        => /\ image.fit = ClaimedFit(WithoutResize(GivenImage).w, WithoutResize(GivenImage).h,
                                     ContentSize[1], ContentSize[2])
           /\ image.fit[1] <= ContentSize[1] /\ image.fit[2] <= ContentSize[2]
           /\ image.fit[1] = ContentSize[1] \/ image.fit[2] = ContentSize[2]
           /\ image.at = <<(resize[1] - image.fit[1]) \div 2, (resize[2] - image.fit[2]) \div 2>>
           /\ image.at[1] >= args.padding /\ image.at[2] >= args.padding

\* the output paths of the inputs of the listing that come before the current one
EarlierOutputs == {OutputPathOf(inputs[i]) : i \in 1..(idx - 1)}

\* C15: within one run of process_images of imager.py or image_processor.py no
\* two files of the listing are given the same output path by
\* generate_output_filename, and no step changes the output file written for
\* an earlier input of the run.
C15_DistinctOutputPaths ==
    /\ [](prog \in {"imager", "image_processor"}
            => \A i, j \in 1..Len(inputs) :
                 i # j => OutputPathOf(inputs[i]) # OutputPathOf(inputs[j]))
    /\ [][prog = "imager" => \A path \in EarlierOutputs : ~Changed(path)]_vars

====
